---- MODULE Spec2Model ----
(***************************************************************************)
(* Model of the bulk email dispatch engine of NewsLetterManager:           *)
(* EmailService (server/email.ts, kept as src/unnamed/part_001) together   *)
(* with the persistence calls it uses (src/server/storage.ts).             *)
(*                                                                         *)
(* One step of the model is one run-to-completion segment of the async     *)
(* code: the code between two awaits, or the external event (database      *)
(* read/write, SMTP hand-off, timer) an await waits for.                   *)
(***************************************************************************)
EXTENDS Integers, Sequences, FiniteSets, TLC

\* ---------------------------------------------------------------- bounds
MaxServers == 2      \* configured SMTP servers in the pool
MaxLimit   == 2      \* largest dailyLimit / largest prior today-count
MaxTasks   == 3      \* emails handed to one sendBulkEmails call
MaxConcTasks == 1    \* emails per call when two calls run concurrently
MaxScan    == 3      \* queries one scan may make while two calls interleave

\* ------------------------------------------------------ program constants
RATE_LIMIT_DELAY == 2000

NoServersConfigured == "No SMTP configurations available"
AllQuotasExhausted  == "Daily sending limit reached for all SMTP configurations"
\* messages of the errors transport.sendMail may reject with
SendErrors == {"ETIMEDOUT", "EAUTH"}
NoError    == "none"
\* message of a rejected persistence call (mongoose)
DbError    == "MongoNetworkError"

\* ------------------------------------------------------------- universes
Batches   == {1, 2}            \* sendBulkEmails invocations (campaign ids)
ServerIds == 1 .. MaxServers   \* _id of a config = its position in stored order
NoConfig  == [id |-> 0, isDefault |-> FALSE, dailyLimit |-> 0]
Admins    == {1, 2}            \* SMTP-config requests that can be in flight
\* (currentSmtpIndex + 1) % 0 in JavaScript; equal to no index, itself included
NaN       == -1
\* config._id of line 70 when smtpQueue[currentSmtpIndex] is undefined
UndefinedConfig == "Cannot read properties of undefined (reading '_id')"

\* status: "sending" of the Campaign.create call (routes.ts line 177)
InitialStatus == "sending"
\* enum of campaignSchema.status (schemas.ts line 45)
CampaignStatusEnum == {"processing", "completed", "failed"}
\* the enum validator mongoose runs on Campaign.create
ValidStatus(st) == st \in CampaignStatusEnum
NoCampaign == [status |-> "none", emailsSent |-> 0, totalEmails |-> 0, error |-> NoError]
IdleAdmin  == [pc |-> "idle", kind |-> "none", id |-> 0, isDefault |-> FALSE, dailyLimit |-> 0]

VARIABLES
  \* persistence (storage.ts)
  configs,            \* SmtpConfig collection, in stored order
  priorSent,          \* per server: "sent" log documents of today made before
  emailLog,           \* EmailLog documents appended by the dispatcher
  \* EmailService singleton fields
  transports,         \* keys of the transports Map
  currentSmtpIndex,   \* 0-based cursor
  smtpQueue,          \* rotation queue
  \* one sendBulkEmails invocation per batch id
  emails,             \* the emails argument: sequence of subscriberIds
  pc,                 \* position in the code
  phase,              \* "top" (line 98), "try" or "catch" block
  idx,                \* 1-based index of the email being processed
  snapshot,           \* const configs of refreshSmtpQueue
  startIndex,         \* const startIndex of getNextAvailableSmtp
  config,             \* const config of getNextAvailableSmtp
  count,              \* const count of getNextAvailableSmtp
  smtp,               \* const smtpConfig of the try block
  caught,             \* message of the error bound in catch (error)
  result,             \* "none", "running", "returned", "rejected"
  error,              \* message sendBulkEmails rejected with
  \* history (observation only, never read by the actions' guards)
  sends,              \* every transport.sendMail call, in order
  refreshes,          \* per batch: completed refreshSmtpQueue calls
  scan,               \* per batch: queue indices queried by the current call
  thrown,             \* per batch: failures of getNextAvailableSmtp
  delays,             \* per batch: delay(ms) calls completed
  created,            \* per server id: nodemailer.createTransport calls
  \* HTTP routes (routes.ts)
  rpc,                \* position of the request POST /api/newsletters/:id/send
  http,               \* status code it answered with, 0 while unanswered
  campaign,           \* the Campaign document it created
  admin               \* per admin request: POST/PUT /api/smtp-configs in flight

store == <<configs, priorSent>>
svc   == <<transports, currentSmtpIndex, smtpQueue>>
loc   == <<snapshot, startIndex, config, count, smtp>>
hist  == <<sends, refreshes, scan, thrown, delays, created>>
web   == <<rpc, http, campaign, admin>>
vars  == <<configs, priorSent, emailLog, transports, currentSmtpIndex,
           smtpQueue, emails, pc, phase, idx, snapshot, startIndex, config,
           count, smtp, caught, result, error, sends, refreshes, scan,
           thrown, delays, created, rpc, http, campaign, admin>>

\* ------------------------------------------------------------ persistence
\* variant: the count query loses its smtpConfigId filter
getSmtpDailyCountAnyServer(id) ==
  priorSent[id]
  + Cardinality({i \in 1 .. Len(emailLog) : emailLog[i].status = "sent"})

\* storage.getSmtpDailyCount: "sent" documents of that server since midnight
getSmtpDailyCount(id) ==
  priorSent[id]
  + Cardinality({i \in 1 .. Len(emailLog) :
                   emailLog[i].smtpConfigId = id /\ emailLog[i].status = "sent"})

\* the document storage.logEmail creates
LogDoc(id, cid, sub, st, err) ==
  [smtpConfigId |-> id, campaignId |-> cid, subscriberId |-> sub,
   status |-> st, error |-> err]

\* ------------------------------------------------------------ the rotator
Min(S) == CHOOSE x \in S : \A y \in S : x <= y

\* configs.find((c) => c.isDefault): index of the first default, 0 if none
FindDefault(cfgs) ==
  LET d == {i \in 1 .. Len(cfgs) : cfgs[i].isDefault}
  IN  IF d = {} THEN 0 ELSE Min(d)

NotDefault(c) == ~c.isDefault

\* variant: the queue keeps the stored order
RefreshQueueStored(cfgs) == cfgs

\* the queue refreshSmtpQueue builds from a snapshot
RefreshQueue(cfgs) ==
  IF FindDefault(cfgs) # 0
  THEN <<cfgs[FindDefault(cfgs)]>> \o SelectSeq(cfgs, NotDefault)
  ELSE cfgs

\* (currentSmtpIndex + 1) % smtpQueue.length
NextIndex(i, n) == IF n = 0 THEN NaN ELSE (i + 1) % n

\* variant: the quota test admits a server that is exactly at its limit
UnderQuotaAtLimit(c, limit) == c <= limit

\* count < config.dailyLimit (line 72)
UnderQuota(c, limit) == c < limit

\* variant: the wrap test compares with the head of the queue
WrappedToHead(i, start) == i # NaN /\ i = 0

\* this.currentSmtpIndex === startIndex (line 81)
Wrapped(i, start) == i # NaN /\ i = start

\* variant: the delay after an error is the ordinary pacing delay
ErrorDelaySingle == RATE_LIMIT_DELAY

\* RATE_LIMIT_DELAY * 2 (line 136)
ErrorDelay == RATE_LIMIT_DELAY * 2

\* ---------------------------------------------------------------- Init
Pools ==
  UNION {[1 .. n -> [isDefault : BOOLEAN, dailyLimit : 1 .. MaxLimit]] :
           n \in 0 .. MaxServers}

WithIds(p) ==
  [i \in 1 .. Len(p) |->
     [id |-> i, isDefault |-> p[i].isDefault, dailyLimit |-> p[i].dailyLimit]]

\* at most one stored config is the default (storage.createSmtpConfig and
\* updateSmtpConfig clear the other defaults before writing one)
OneDefault(p) == Cardinality({i \in 1 .. Len(p) : p[i].isDefault}) <= 1

EmailsOf(n) == [i \in 1 .. n |-> i]

InitService ==
  /\ transports = {}
  /\ currentSmtpIndex = 0
  /\ smtpQueue = <<>>

InitBatches ==
  /\ pc = [b \in Batches |-> "idle"]
  /\ phase = [b \in Batches |-> "top"]
  /\ idx = [b \in Batches |-> 1]
  /\ snapshot = [b \in Batches |-> <<>>]
  /\ startIndex = [b \in Batches |-> 0]
  /\ config = [b \in Batches |-> NoConfig]
  /\ count = [b \in Batches |-> 0]
  /\ smtp = [b \in Batches |-> NoConfig]
  /\ caught = [b \in Batches |-> NoError]
  /\ result = [b \in Batches |-> "none"]
  /\ error = [b \in Batches |-> NoError]
  /\ sends = <<>>
  /\ refreshes = [b \in Batches |-> 0]
  /\ scan = [b \in Batches |-> <<>>]
  /\ thrown = [b \in Batches |-> <<>>]
  /\ delays = [b \in Batches |-> <<>>]
  /\ created = [s \in ServerIds |-> 0]

InitWeb ==
  /\ rpc = "idle"
  /\ http = 0
  /\ campaign = NoCampaign
  /\ admin = [r \in Admins |-> IdleAdmin]

InitStore ==
  /\ \E p \in Pools : OneDefault(p) /\ configs = WithIds(p)
  /\ priorSent \in [ServerIds -> 0 .. MaxLimit]
  /\ \A s \in ServerIds : s > Len(configs) => priorSent[s] = 0
  /\ emailLog = <<>>

\* one campaign: batch 1 is the only sendBulkEmails invocation
Init ==
  /\ InitStore
  /\ InitService
  /\ InitBatches
  /\ InitWeb
  /\ \E n \in 0 .. MaxTasks : emails = [b \in Batches |-> IF b = 1 THEN EmailsOf(n) ELSE <<>>]

\* ------------------------------------------------------- sendBulkEmails
\* the call itself: runs up to the await of line 98 / line 41
StartCall(b) ==
  /\ pc' = [pc EXCEPT ![b] = "rf_read"]
  /\ phase' = [phase EXCEPT ![b] = "top"]
  /\ result' = [result EXCEPT ![b] = "running"]

\* sendBulkEmails called directly
Start(b) ==
  /\ pc[b] = "idle"
  /\ StartCall(b)
  /\ UNCHANGED <<web, store, emailLog, svc, emails, idx, loc, caught, error, hist>>

\* storage.getSmtpConfigs() answers (line 41)
RefreshRead(b) ==
  /\ pc[b] = "rf_read"
  /\ snapshot' = [snapshot EXCEPT ![b] = configs]
  /\ pc' = [pc EXCEPT ![b] = "rf_build"]
  /\ UNCHANGED <<web, store, emailLog, svc, emails, phase, idx, startIndex, config,
                 count, smtp, caught, result, error, hist>>

\* lines 44-55, then back in the caller: the loop (line 100) or line 63
RefreshBuild(b) ==
  /\ pc[b] = "rf_build"
  /\ smtpQueue' = RefreshQueue(snapshot[b])
  /\ currentSmtpIndex' = 0
  /\ refreshes' = [refreshes EXCEPT ![b] = @ + 1]
  /\ pc' = [pc EXCEPT ![b] = IF phase[b] = "top" THEN "loop" ELSE "gn_check"]
  /\ UNCHANGED <<web, store, emailLog, transports, emails, phase, idx, loc, caught,
                 result, error, sends, scan, thrown, delays, created>>

\* a throw out of getNextAvailableSmtp: caught by the try block's catch, or,
\* when raised inside the catch block, rejecting sendBulkEmails
Throw(b, e) ==
  /\ thrown' = [thrown EXCEPT ![b] = Append(@, [task |-> idx[b], phase |-> phase[b], error |-> e])]
  /\ IF phase[b] = "try"
     THEN /\ caught' = [caught EXCEPT ![b] = e]
          /\ pc' = [pc EXCEPT ![b] = "caught"]
          /\ UNCHANGED <<result, error>>
     ELSE /\ result' = [result EXCEPT ![b] = "rejected"]
          /\ error' = [error EXCEPT ![b] = e]
          /\ pc' = [pc EXCEPT ![b] = "done"]
          /\ UNCHANGED caught

\* lines 67-70: the scan starts at the cursor and issues its first query
ScanStart(b) ==
  /\ startIndex' = [startIndex EXCEPT ![b] = currentSmtpIndex]
  /\ config' = [config EXCEPT ![b] = smtpQueue[currentSmtpIndex + 1]]
  /\ pc' = [pc EXCEPT ![b] = "gn_query"]

\* variant: an empty queue is not rebuilt before the emptiness test of line 63
EnterNextNoRefresh(b, ph) ==
  /\ phase' = [phase EXCEPT ![b] = ph]
  /\ scan' = [scan EXCEPT ![b] = <<>>]
  /\ IF Len(smtpQueue) = 0
     THEN /\ pc' = [pc EXCEPT ![b] = "gn_check"]
          /\ UNCHANGED <<startIndex, config>>
     ELSE ScanStart(b)

\* lines 59-70 as entered from the try block (ph = "try") or the catch block
EnterNext(b, ph) ==
  /\ phase' = [phase EXCEPT ![b] = ph]
  /\ scan' = [scan EXCEPT ![b] = <<>>]
  /\ IF Len(smtpQueue) = 0
     THEN /\ pc' = [pc EXCEPT ![b] = "rf_read"]
          /\ UNCHANGED <<startIndex, config>>
     ELSE ScanStart(b)

\* variant: the loop body runs once before the list is tested
HasEmailOrFirst(b) == idx[b] <= Len(emails[b]) \/ idx[b] = 1

\* variant: the loop stops one email early
HasEmailButLast(b) == idx[b] < Len(emails[b])

\* for (const email of emails): an email is left to process
HasEmail(b) == idx[b] <= Len(emails[b])

\* line 100 with an email left, line 103
TryNext(b) ==
  /\ pc[b] = "loop"
  /\ HasEmail(b)
  /\ EnterNext(b, "try")
  /\ UNCHANGED <<web, store, emailLog, svc, emails, idx, snapshot, count, smtp,
                 caught, result, error, sends, refreshes, thrown, delays, created>>

\* line 100 with no email left: sendBulkEmails resolves
Return(b) ==
  /\ pc[b] = "loop"
  /\ ~HasEmail(b)
  /\ pc' = [pc EXCEPT ![b] = "done"]
  /\ result' = [result EXCEPT ![b] = "returned"]
  /\ UNCHANGED <<web, store, emailLog, svc, emails, phase, idx, loc, caught, error, hist>>

\* lines 63-70 after the implicit refresh of line 60
GnCheck(b) ==
  /\ pc[b] = "gn_check"
  /\ IF Len(smtpQueue) = 0
     THEN /\ Throw(b, NoServersConfigured)
          /\ UNCHANGED <<startIndex, config>>
     ELSE /\ ScanStart(b)
          /\ UNCHANGED <<caught, result, error, thrown>>
  /\ UNCHANGED <<web, store, emailLog, svc, emails, phase, idx, snapshot, count, smtp,
                 sends, refreshes, scan, delays, created>>

\* storage.getSmtpDailyCount(config._id) answers (line 70)
GnQuery(b) ==
  /\ pc[b] = "gn_query"
  /\ count' = [count EXCEPT ![b] = getSmtpDailyCount(config[b].id)]
  /\ scan' = [scan EXCEPT ![b] = Append(@, currentSmtpIndex)]
  /\ pc' = [pc EXCEPT ![b] = "gn_decide"]
  /\ UNCHANGED <<web, store, emailLog, svc, emails, phase, idx, snapshot, startIndex,
                 config, smtp, caught, result, error, sends, refreshes, thrown,
                 delays, created>>

\* variant: round robin, the cursor also moves on past the server it returns
GnDecideRoundRobin(b) ==
  /\ pc[b] = "gn_decide"
  /\ IF UnderQuota(count[b], config[b].dailyLimit)
     THEN /\ pc' = [pc EXCEPT ![b] = "gn_ret"]
          /\ currentSmtpIndex' = NextIndex(currentSmtpIndex, Len(smtpQueue))
          /\ UNCHANGED <<config, caught, result, error, thrown>>
     ELSE /\ currentSmtpIndex' = NextIndex(currentSmtpIndex, Len(smtpQueue))
          /\ IF Wrapped(currentSmtpIndex', startIndex[b])
             THEN /\ Throw(b, AllQuotasExhausted)
                  /\ UNCHANGED config
             ELSE IF currentSmtpIndex' = NaN
             THEN \* smtpQueue[NaN] is undefined: line 70 throws a TypeError
                  /\ Throw(b, UndefinedConfig)
                  /\ UNCHANGED config
             ELSE /\ config' = [config EXCEPT ![b] = smtpQueue[currentSmtpIndex' + 1]]
                  /\ pc' = [pc EXCEPT ![b] = "gn_query"]
                  /\ UNCHANGED <<caught, result, error, thrown>>
  /\ UNCHANGED <<web, store, emailLog, transports, smtpQueue, emails, phase, idx,
                 snapshot, startIndex, count, smtp, sends, refreshes, scan,
                 delays, created>>

\* lines 72-86
GnDecide(b) ==
  /\ pc[b] = "gn_decide"
  /\ IF UnderQuota(count[b], config[b].dailyLimit)
     THEN /\ pc' = [pc EXCEPT ![b] = "gn_ret"]
          /\ UNCHANGED <<currentSmtpIndex, config, caught, result, error, thrown>>
     ELSE /\ currentSmtpIndex' = NextIndex(currentSmtpIndex, Len(smtpQueue))
          /\ IF Wrapped(currentSmtpIndex', startIndex[b])
             THEN /\ Throw(b, AllQuotasExhausted)
                  /\ UNCHANGED config
             ELSE IF currentSmtpIndex' = NaN
             THEN \* smtpQueue[NaN] is undefined: line 70 throws a TypeError
                  /\ Throw(b, UndefinedConfig)
                  /\ UNCHANGED config
             ELSE /\ config' = [config EXCEPT ![b] = smtpQueue[currentSmtpIndex' + 1]]
                  /\ pc' = [pc EXCEPT ![b] = "gn_query"]
                  /\ UNCHANGED <<caught, result, error, thrown>>
  /\ UNCHANGED <<web, store, emailLog, transports, smtpQueue, emails, phase, idx,
                 snapshot, startIndex, count, smtp, sends, refreshes, scan,
                 delays, created>>

\* variant: a transport is created on every call
NoTransportAlways(id) == TRUE

\* !this.transports.has(config._id.toString()) (line 21)
NoTransport(id) == id \notin transports

\* line 103 resumes with the server, line 104 (getTransport, lines 21-33)
GetTransport(b) ==
  /\ pc[b] = "gn_ret"
  /\ phase[b] = "try"
  /\ smtp' = [smtp EXCEPT ![b] = config[b]]
  /\ transports' = transports \cup {config[b].id}
  /\ created' = IF NoTransport(config[b].id)
                THEN [created EXCEPT ![config[b].id] = @ + 1]
                ELSE created
  /\ pc' = [pc EXCEPT ![b] = "sending"]
  /\ UNCHANGED <<web, store, emailLog, currentSmtpIndex, smtpQueue, emails, phase,
                 idx, snapshot, startIndex, config, count, caught, result,
                 error, sends, refreshes, scan, thrown, delays>>

SendRec(b, ok, msg) ==
  [batch |-> b, task |-> idx[b], subscriberId |-> emails[b][idx[b]],
   server |-> smtp[b].id, ok |-> ok, error |-> msg]

\* variant: a successful send goes on to the delay without its log document
SendOkNoLog(b) ==
  /\ pc[b] = "sending"
  /\ sends' = Append(sends, SendRec(b, TRUE, NoError))
  /\ pc' = [pc EXCEPT ![b] = "delay"]
  /\ UNCHANGED <<web, store, emailLog, svc, emails, phase, idx, loc, caught, result,
                 error, refreshes, scan, thrown, delays, created>>

\* transport.sendMail resolves (lines 107-112)
SendOk(b) ==
  /\ pc[b] = "sending"
  /\ sends' = Append(sends, SendRec(b, TRUE, NoError))
  /\ pc' = [pc EXCEPT ![b] = "log_sent"]
  /\ UNCHANGED <<web, store, emailLog, svc, emails, phase, idx, loc, caught, result,
                 error, refreshes, scan, thrown, delays, created>>

\* transport.sendMail rejects: control moves to the catch block (line 124)
SendFail(b) ==
  /\ pc[b] = "sending"
  /\ \E m \in SendErrors :
       /\ caught' = [caught EXCEPT ![b] = m]
       /\ sends' = Append(sends, SendRec(b, FALSE, m))
  /\ pc' = [pc EXCEPT ![b] = "caught"]
  /\ UNCHANGED <<web, store, emailLog, svc, emails, phase, idx, loc, result,
                 error, refreshes, scan, thrown, delays, created>>

\* storage.logEmail of lines 115-120 writes its document
LogSent(b) ==
  /\ pc[b] = "log_sent"
  /\ emailLog' = Append(emailLog,
                   LogDoc(smtp[b].id, b, emails[b][idx[b]], "sent", NoError))
  /\ pc' = [pc EXCEPT ![b] = "delay"]
  /\ UNCHANGED <<web, store, svc, emails, phase, idx, loc, caught, result, error, hist>>

\* delay(RATE_LIMIT_DELAY) of line 123 elapses; on to the next email
Delay(b) ==
  /\ pc[b] = "delay"
  /\ delays' = [delays EXCEPT ![b] = Append(@, RATE_LIMIT_DELAY)]
  /\ idx' = [idx EXCEPT ![b] = @ + 1]
  /\ pc' = [pc EXCEPT ![b] = "loop"]
  /\ UNCHANGED <<web, store, emailLog, svc, emails, phase, loc, caught, result,
                 error, sends, refreshes, scan, thrown, created>>

\* variant: the catch block logs against the server under the cursor without
\* asking for its quota
CatchNextNoQuotaCheck(b) ==
  /\ pc[b] = "caught"
  /\ phase' = [phase EXCEPT ![b] = "catch"]
  /\ scan' = [scan EXCEPT ![b] = <<>>]
  /\ IF Len(smtpQueue) = 0
     THEN /\ pc' = [pc EXCEPT ![b] = "rf_read"]
          /\ UNCHANGED config
     ELSE /\ config' = [config EXCEPT ![b] = smtpQueue[currentSmtpIndex + 1]]
          /\ pc' = [pc EXCEPT ![b] = "gn_ret"]
  /\ UNCHANGED <<web, store, emailLog, svc, emails, idx, snapshot, startIndex, count,
                 smtp, caught, result, error, sends, refreshes, thrown, delays,
                 created>>

\* line 126: the catch block selects a server again
CatchNext(b) ==
  /\ pc[b] = "caught"
  /\ EnterNext(b, "catch")
  /\ UNCHANGED <<web, store, emailLog, svc, emails, idx, snapshot, count, smtp,
                 caught, result, error, sends, refreshes, thrown, delays, created>>

\* variant: the failure document is written without the error text
LogFailedNoMessage(b) ==
  /\ pc[b] = "gn_ret"
  /\ phase[b] = "catch"
  /\ emailLog' = Append(emailLog,
                   LogDoc(config[b].id, b, emails[b][idx[b]], "failed", NoError))
  /\ pc' = [pc EXCEPT ![b] = "delay_err"]
  /\ UNCHANGED <<web, store, svc, emails, phase, idx, loc, caught, result, error, hist>>

\* variant: the failure document names the server the send was attempted on
LogFailedAgainstUsed(b) ==
  /\ pc[b] = "gn_ret"
  /\ phase[b] = "catch"
  /\ emailLog' = Append(emailLog,
                   LogDoc(smtp[b].id, b, emails[b][idx[b]], "failed", caught[b]))
  /\ pc' = [pc EXCEPT ![b] = "delay_err"]
  /\ UNCHANGED <<web, store, svc, emails, phase, idx, loc, caught, result, error, hist>>

\* storage.logEmail of lines 127-133 writes its document
LogFailed(b) ==
  /\ pc[b] = "gn_ret"
  /\ phase[b] = "catch"
  /\ emailLog' = Append(emailLog,
                   LogDoc(config[b].id, b, emails[b][idx[b]], "failed", caught[b]))
  /\ pc' = [pc EXCEPT ![b] = "delay_err"]
  /\ UNCHANGED <<web, store, svc, emails, phase, idx, loc, caught, result, error, hist>>

\* delay(RATE_LIMIT_DELAY * 2) of line 136 elapses; on to the next email
DelayAfterError(b) ==
  /\ pc[b] = "delay_err"
  /\ delays' = [delays EXCEPT ![b] = Append(@, ErrorDelay)]
  /\ idx' = [idx EXCEPT ![b] = @ + 1]
  /\ pc' = [pc EXCEPT ![b] = "loop"]
  /\ UNCHANGED <<web, store, emailLog, svc, emails, phase, loc, caught, result,
                 error, sends, refreshes, scan, thrown, created>>

\* ------------------------------------------- rejected persistence calls
\* storage.getSmtpConfigs() rejects (line 41): out of refreshSmtpQueue, and
\* from line 98 out of sendBulkEmails, from line 60 out of getNextAvailableSmtp
RefreshFault(b) ==
  /\ pc[b] = "rf_read"
  /\ IF phase[b] = "top"
     THEN /\ result' = [result EXCEPT ![b] = "rejected"]
          /\ error' = [error EXCEPT ![b] = DbError]
          /\ pc' = [pc EXCEPT ![b] = "done"]
          /\ UNCHANGED <<caught, thrown>>
     ELSE Throw(b, DbError)
  /\ UNCHANGED <<web, store, emailLog, svc, emails, phase, idx, loc, sends,
                 refreshes, scan, delays, created>>

\* storage.getSmtpDailyCount() rejects (line 70)
QueryFault(b) ==
  /\ pc[b] = "gn_query"
  /\ Throw(b, DbError)
  /\ UNCHANGED <<web, store, emailLog, svc, emails, phase, idx, loc, sends,
                 refreshes, scan, delays, created>>

\* storage.logEmail() rejects: line 115 is inside the try, line 127 is not
LogFault(b) ==
  /\ pc[b] \in {"log_sent", "gn_ret"}
  /\ pc[b] = "gn_ret" => phase[b] = "catch"
  /\ IF pc[b] = "log_sent"
     THEN /\ caught' = [caught EXCEPT ![b] = DbError]
          /\ pc' = [pc EXCEPT ![b] = "caught"]
          /\ UNCHANGED <<result, error>>
     ELSE /\ result' = [result EXCEPT ![b] = "rejected"]
          /\ error' = [error EXCEPT ![b] = DbError]
          /\ pc' = [pc EXCEPT ![b] = "done"]
          /\ UNCHANGED caught
  /\ UNCHANGED <<web, store, emailLog, svc, emails, phase, idx, loc, hist>>

Step(b) ==
  \/ Start(b)
  \/ RefreshRead(b)
  \/ RefreshBuild(b)
  \/ TryNext(b)
  \/ Return(b)
  \/ GnCheck(b)
  \/ GnQuery(b)
  \/ GnDecide(b)
  \/ GetTransport(b)
  \/ SendOk(b)
  \/ SendFail(b)
  \/ LogSent(b)
  \/ Delay(b)
  \/ CatchNext(b)
  \/ LogFailed(b)
  \/ DelayAfterError(b)

\* one sendBulkEmails invocation, every persistence call answers
Next == Step(1)

Spec == Init /\ [][Next]_vars

\* one sendBulkEmails invocation, persistence calls may reject
NextFault ==
  \/ Step(1)
  \/ RefreshFault(1)
  \/ QueryFault(1)
  \/ LogFault(1)

SpecFault == Init /\ [][NextFault]_vars

\* two sendBulkEmails invocations (two campaigns) on the shared emailService
\* singleton (line 142), their steps interleaving at every await; no server
\* is the default and each starts the day unused or with its dailyLimit used
InitConc ==
  /\ InitStore
  /\ \A s \in 1 .. Len(configs) :
        ~configs[s].isDefault /\ priorSent[s] \in {0, configs[s].dailyLimit}
  /\ InitService
  /\ InitBatches
  /\ InitWeb
  /\ \E n1, n2 \in 0 .. MaxConcTasks :
        emails = [b \in Batches |-> IF b = 1 THEN EmailsOf(n1) ELSE EmailsOf(n2)]

\* (interleaved scans can push the cursor past each other's start index for
\* ever; a scan is followed for MaxScan queries)
NextConc == \E b \in Batches : Len(scan[b]) <= MaxScan /\ Step(b)

SpecConc == InitConc /\ [][NextConc]_vars

\* ------------------------------- POST /api/newsletters/:id/send (routes.ts)
\* lines 158-164: authentication, then Newsletter.findById
RouteRequest ==
  /\ rpc = "idle"
  /\ \E authenticated \in BOOLEAN :
       IF authenticated
       THEN rpc' = "find_newsletter" /\ UNCHANGED http
       ELSE rpc' = "done" /\ http' = 401
  /\ UNCHANGED <<campaign, admin, store, emailLog, svc, emails, pc, phase, idx,
                 loc, caught, result, error, hist>>

\* lines 162-165: the newsletter is found or the route answers 404
RouteFindNewsletter ==
  /\ rpc = "find_newsletter"
  /\ \E found \in BOOLEAN :
       IF found
       THEN rpc' = "find_subscribers" /\ UNCHANGED http
       ELSE rpc' = "done" /\ http' = 404
  /\ UNCHANGED <<campaign, admin, store, emailLog, svc, emails, pc, phase, idx,
                 loc, caught, result, error, hist>>

\* line 167: Subscriber.find answers with the subscribers (emails[1])
RouteFindSubscribers ==
  /\ rpc = "find_subscribers"
  /\ rpc' = "create"
  /\ UNCHANGED <<http, campaign, admin, store, emailLog, svc, emails, pc, phase,
                 idx, loc, caught, result, error, hist>>

\* lines 173-223: Campaign.create validates the document; when it resolves
\* the route calls sendBulkEmails without awaiting it and answers 200, when it
\* rejects the outer catch answers 500
RouteCreateCampaign ==
  /\ rpc = "create"
  /\ rpc' = "done"
  /\ IF ValidStatus(InitialStatus)
     THEN /\ campaign' = [status |-> InitialStatus, emailsSent |-> 0,
                          totalEmails |-> Len(emails[1]), error |-> NoError]
          /\ StartCall(1)
          /\ http' = 200
     ELSE /\ http' = 500
          /\ UNCHANGED <<campaign, pc, phase, result>>
  /\ UNCHANGED <<admin, store, emailLog, svc, emails, idx, loc, caught, error, hist>>

\* one request to the send route; sendBulkEmails is called by the route only
\* (the then/catch callbacks of lines 198-212 are attached after Campaign.create
\* has resolved)
NextRoute ==
  \/ RouteRequest
  \/ RouteFindNewsletter
  \/ RouteFindSubscribers
  \/ RouteCreateCampaign

SpecRoute == Init /\ [][NextRoute]_vars

\* ------------------------------------- POST / PUT /api/smtp-configs (routes.ts)
\* POST requests that have not yet written their document
PendingPosts ==
  Cardinality({q \in Admins : admin[q].kind = "POST" /\ admin[q].pc \in {"clear", "write"}})

\* POST, lines 241-251: the body parsed (dailyLimit >= 1), data.isDefault tested
AdminPost(r) ==
  /\ admin[r].pc = "idle"
  /\ Len(configs) + PendingPosts < MaxServers
  /\ \E isDef \in BOOLEAN, lim \in 1 .. MaxLimit :
       admin' = [admin EXCEPT ![r] =
                   [pc |-> IF isDef THEN "clear" ELSE "write", kind |-> "POST",
                    id |-> 0, isDefault |-> isDef, dailyLimit |-> lim]]
  /\ UNCHANGED <<rpc, http, campaign, store, emailLog, svc, emails, pc, phase,
                 idx, loc, caught, result, error, hist>>

\* PUT, lines 273-280: update = {isDefault}, update.isDefault tested
AdminPut(r) ==
  /\ admin[r].pc = "idle"
  /\ \E id \in ServerIds, isDef \in BOOLEAN :
       admin' = [admin EXCEPT ![r] =
                   [pc |-> IF isDef THEN "clear" ELSE "write", kind |-> "PUT",
                    id |-> id, isDefault |-> isDef, dailyLimit |-> 0]]
  /\ UNCHANGED <<rpc, http, campaign, store, emailLog, svc, emails, pc, phase,
                 idx, loc, caught, result, error, hist>>

\* the filter of SmtpConfig.updateMany: {isDefault: true}, for a PUT also
\* {_id: {$ne: id}}
ClearFilter(r, c) ==
  c.isDefault /\ (admin[r].kind = "PUT" => c.id # admin[r].id)

\* SmtpConfig.updateMany(..., {$set: {isDefault: false}}) (lines 252-255, 281-284)
AdminClear(r) ==
  /\ admin[r].pc = "clear"
  /\ configs' = [i \in 1 .. Len(configs) |->
                   IF ClearFilter(r, configs[i])
                   THEN [configs[i] EXCEPT !.isDefault = FALSE]
                   ELSE configs[i]]
  /\ admin' = [admin EXCEPT ![r].pc = "write"]
  /\ UNCHANGED <<rpc, http, campaign, priorSent, emailLog, svc, emails, pc,
                 phase, idx, loc, caught, result, error, hist>>

\* SmtpConfig.create(data) (line 258) or SmtpConfig.findByIdAndUpdate(id, update)
\* (lines 287-293: no document with that id, no change and 404)
AdminWrite(r) ==
  /\ admin[r].pc = "write"
  /\ configs' =
       IF admin[r].kind = "POST"
       THEN Append(configs, [id |-> Len(configs) + 1,
                             isDefault |-> admin[r].isDefault,
                             dailyLimit |-> admin[r].dailyLimit])
       ELSE [i \in 1 .. Len(configs) |->
               IF configs[i].id = admin[r].id
               THEN [configs[i] EXCEPT !.isDefault = admin[r].isDefault]
               ELSE configs[i]]
  /\ admin' = [admin EXCEPT ![r].pc = "done"]
  /\ UNCHANGED <<rpc, http, campaign, priorSent, emailLog, svc, emails, pc,
                 phase, idx, loc, caught, result, error, hist>>

\* the response is sent (lines 265-266, 295-296)
AdminRespond(r) ==
  /\ admin[r].pc = "done"
  /\ admin' = [admin EXCEPT ![r] = IdleAdmin]
  /\ UNCHANGED <<rpc, http, campaign, store, emailLog, svc, emails, pc, phase,
                 idx, loc, caught, result, error, hist>>

AdminStep(r) ==
  \/ AdminPost(r)
  \/ AdminPut(r)
  \/ AdminClear(r)
  \/ AdminWrite(r)
  \/ AdminRespond(r)

\* SMTP-config requests interleaving at their awaits, and one sendBulkEmails
\* invocation reading the collection
NextAdmin ==
  \/ \E r \in Admins : AdminStep(r)
  \/ Step(1)

InitAdmin ==
  /\ InitStore
  /\ \A s \in ServerIds : priorSent[s] = 0
  /\ InitService
  /\ InitBatches
  /\ InitWeb
  /\ \E n \in 0 .. MaxConcTasks :
        emails = [b \in Batches |-> IF b = 1 THEN EmailsOf(n) ELSE <<>>]

SpecAdmin == InitAdmin /\ [][NextAdmin]_vars

\* ------------------------------------ DELETE /api/smtp-configs/:id (routes.ts)
\* SmtpConfig.findByIdAndDelete(id) (line 308)
DeleteConfig(id) ==
  /\ \E i \in 1 .. Len(configs) : configs[i].id = id
  /\ configs' = SelectSeq(configs, LAMBDA c : c.id # id)
  /\ UNCHANGED <<web, priorSent, emailLog, svc, emails, pc, phase, idx, loc,
                 caught, result, error, hist>>

\* two sendBulkEmails invocations while configurations are deleted
NextEnv ==
  \/ NextConc
  \/ \E id \in ServerIds : DeleteConfig(id)

InitEnv ==
  /\ InitConc
  /\ Len(configs) >= 1

SpecEnv == InitEnv /\ [][NextEnv]_vars

\* two sendBulkEmails invocations racing for the quota of a single server
InitQuota ==
  /\ InitStore
  /\ Len(configs) = 1
  /\ \A s \in 1 .. Len(configs) : priorSent[s] <= configs[s].dailyLimit
  /\ InitService
  /\ InitBatches
  /\ InitWeb
  /\ \E n1 \in 1 .. MaxConcTasks + 1, n2 \in 1 .. MaxConcTasks :
        emails = [b \in Batches |-> IF b = 1 THEN EmailsOf(n1) ELSE EmailsOf(n2)]

SpecQuota == InitQuota /\ [][NextConc]_vars

\* one sendBulkEmails invocation in which every awaited call (persistence,
\* sendMail, timer) eventually completes
SpecLive == Init /\ [][Next]_vars /\ WF_vars(Next)

\* ------------------------------------------------------------ observations
\* stored index of the servers whose today-count is below their dailyLimit
UnderQuotaServers ==
  {i \in 1 .. Len(configs) : getSmtpDailyCount(configs[i].id) < configs[i].dailyLimit}

\* queue positions (1-based) whose server is at or over its dailyLimit
QueueExhausted ==
  \A i \in 1 .. Len(smtpQueue) :
     getSmtpDailyCount(smtpQueue[i].id) >= smtpQueue[i].dailyLimit

\* the getNextAvailableSmtp call of batch b has just failed with e
CallFailed(b, e) ==
  /\ thrown[b] # <<>>
  /\ thrown[b][Len(thrown[b])].error = e
  /\ \/ pc[b] = "caught" /\ caught[b] = e
     \/ pc[b] = "done" /\ result[b] = "rejected" /\ error[b] = e

NoDuplicates(q) == \A i, j \in 1 .. Len(q) : q[i] = q[j] => i = j

\* delivery-log documents of campaign b, in the order written
LogOf(b) == SelectSeq(emailLog, LAMBDA d : d.campaignId = b)

\* sendMail calls of batch b, in the order made
SendsOf(b) == SelectSeq(sends, LAMBDA r : r.batch = b)

AllSendsOk == \A i \in 1 .. Len(sends) : sends[i].ok

\* ------------------------------------------------------------------ C1
\* C1: while some configured server is under its quota, no call of
\* getNextAvailableSmtp fails and no scan queries more than queue-length
\* positions; and whenever a call returns, the count it read for the returned
\* server is strictly below that server's dailyLimit (and is its today-count).
C1_ReturnsServerUnderQuota ==
  \A b \in {1} :
    /\ UnderQuotaServers # {} =>
          /\ thrown[b] = <<>>
          /\ result[b] # "rejected"
          /\ Len(scan[b]) <= Len(smtpQueue)
    /\ pc[b] = "gn_ret" =>
          /\ count[b] < config[b].dailyLimit
          /\ count[b] = getSmtpDailyCount(config[b].id)
          /\ \E i \in 1 .. Len(configs) : configs[i] = config[b]
          /\ smtpQueue[currentSmtpIndex + 1] = config[b]

\* a call skipped an exhausted server and returned the next one
C1_Witness ==
  /\ pc[1] = "gn_ret"
  /\ Len(scan[1]) = 2
  /\ count[1] < config[1].dailyLimit
  /\ UnderQuotaServers # {}

\* ------------------------------------------------------------------ C2
\* C2: a scan never queries a queue position twice nor more than queue-length
\* positions; while every server of the queue is at or over its limit no call
\* returns a server; and a call that failed with AllQuotasExhausted queried
\* every position exactly once and left the cursor on the index it started at.
C2_ExhaustedScanBounded ==
  \A b \in {1} :
    /\ NoDuplicates(scan[b])
    /\ Len(scan[b]) <= Len(smtpQueue)
    /\ (Len(smtpQueue) > 0 /\ QueueExhausted) => pc[b] # "gn_ret"
    /\ CallFailed(b, AllQuotasExhausted) =>
          /\ QueueExhausted
          /\ Len(scan[b]) = Len(smtpQueue)
          /\ currentSmtpIndex = startIndex[b]

\* a scan that started in the middle of a two-server queue wrapped and failed
C2_Witness ==
  /\ CallFailed(1, AllQuotasExhausted)
  /\ Len(smtpQueue) = 2
  /\ startIndex[1] = 1
  /\ scan[1] = <<1, 0>>

\* ------------------------------------------------------------------ C3
\* C3: once getNextAvailableSmtp has failed with AllQuotasExhausted while
\* email k was being processed, sendBulkEmails never returns normally and,
\* when it ends, has rejected with that error; no sendMail call and no
\* delivery-log document (sent or failed) exists for email k or a later one.
C3_QuotaExhaustionIsBatchFatal ==
  \A b \in {1} : \A t \in 1 .. Len(thrown[b]) :
    thrown[b][t].error = AllQuotasExhausted =>
      LET k == thrown[b][t].task IN
      /\ result[b] # "returned"
      /\ idx[b] = k
      /\ pc[b] = "done" => result[b] = "rejected" /\ error[b] = AllQuotasExhausted
      /\ \A i \in 1 .. Len(sends) :
            sends[i].batch = b => sends[i].task < k
      /\ \A i \in 1 .. Len(emailLog) :
            emailLog[i].campaignId = b =>
              \E j \in 1 .. k - 1 : emailLog[i].subscriberId = emails[b][j]

\* the batch was rejected at its second email with a third one still waiting
C3_Witness ==
  /\ result[1] = "rejected"
  /\ error[1] = AllQuotasExhausted
  /\ thrown[1][1].task = 2
  /\ Len(emails[1]) = 3
  /\ Len(LogOf(1)) = 1

\* ------------------------------------------------------------------ C4
\* C4: N emails, one configured server with dailyLimit N-1 and today-count 0,
\* every send succeeding: the batch never returns normally, and when it ends
\* it has rejected with AllQuotasExhausted after exactly N-1 sendMail calls,
\* with exactly N-1 log documents, all "sent", for that server and for the
\* first N-1 subscribers in order; the N-th email was not sent.
C4_SingleServerLimitNMinus1 ==
  LET N == Len(emails[1]) IN
  (/\ N >= 1
   /\ Len(configs) = 1
   /\ configs[1].dailyLimit = N - 1
   /\ priorSent[configs[1].id] = 0
   /\ AllSendsOk) =>
      /\ result[1] # "returned"
      /\ Len(sends) <= N - 1
      /\ \A i \in 1 .. Len(emailLog) : emailLog[i].status = "sent"
      /\ pc[1] = "done" =>
            /\ result[1] = "rejected"
            /\ error[1] = AllQuotasExhausted
            /\ Len(sends) = N - 1
            /\ emailLog = [i \in 1 .. N - 1 |->
                             LogDoc(configs[1].id, 1, emails[1][i], "sent", NoError)]

\* three emails against a single server of limit two: rejected after two sends
C4_Witness ==
  /\ Len(emails[1]) = 3
  /\ Len(configs) = 1
  /\ configs[1].dailyLimit = 2
  /\ priorSent[1] = 0
  /\ AllSendsOk
  /\ pc[1] = "done"
  /\ result[1] = "rejected"
  /\ Len(emailLog) = 2

\* ------------------------------------------------------------------ C5
\* C5: an email whose sendMail call rejected was sent exactly once; once the
\* loop has moved past it there is exactly one log document for it, with
\* status "failed" and the message of the error sendMail rejected with; the
\* batch is never rejected while that email is the current one, and when a
\* next email exists a sendMail call was made for it by the time the batch ends.
C5_FailedSendLoggedOnceNoRetry ==
  \A i \in 1 .. Len(sends) :
    ~sends[i].ok =>
      LET b == sends[i].batch
          k == sends[i].task
          docs == {j \in 1 .. Len(emailLog) :
                     /\ emailLog[j].campaignId = b
                     /\ emailLog[j].subscriberId = sends[i].subscriberId}
      IN
      /\ Cardinality({j \in 1 .. Len(sends) :
                        sends[j].batch = b /\ sends[j].task = k}) = 1
      /\ Cardinality(docs) <= 1
      /\ \A j \in docs : /\ emailLog[j].status = "failed"
                          /\ emailLog[j].error = sends[i].error
                          /\ emailLog[j].error \in SendErrors
      /\ (idx[b] > k \/ pc[b] = "done") => Cardinality(docs) = 1
      /\ result[b] = "rejected" => idx[b] > k
      /\ (pc[b] = "done" /\ k < Len(emails[b])) =>
            \E j \in 1 .. Len(sends) : sends[j].batch = b /\ sends[j].task = k + 1

\* the first send failed, its failure is logged, the second email was sent
C5_Witness ==
  /\ Len(sends) >= 2
  /\ ~sends[1].ok
  /\ sends[2].task = 2
  /\ Len(emailLog) >= 1
  /\ emailLog[1].status = "failed"
  /\ emailLog[1].error = sends[1].error

\* ------------------------------------------------------------------ C6
\* C6: whenever sendBulkEmails has rejected while an email was being
\* processed, the error it rejected with is NoServersConfigured or
\* AllQuotasExhausted (a rejected persistence call never reaches the caller).
C6_RejectsOnlyBatchFatal ==
  \A b \in {1} :
    (result[b] = "rejected" /\ phase[b] # "top") =>
       error[b] \in {NoServersConfigured, AllQuotasExhausted}

\* ------------------------------------------------------------------ C7
\* C7: when sendBulkEmails has returned normally for n emails, the log holds
\* exactly n documents of that campaign, the i-th one carrying the i-th
\* subscriberId, with status "sent" if the sendMail call of email i resolved
\* and "failed" if it rejected; exactly one sendMail call was made per email.
C7_OneLogDocumentPerEmailInOrder ==
  \A b \in {1} :
    result[b] = "returned" =>
      LET n == Len(emails[b]) IN
      /\ Len(LogOf(b)) = n
      /\ Len(SendsOf(b)) = n
      /\ \A i \in 1 .. n :
            /\ LogOf(b)[i].subscriberId = emails[b][i]
            /\ SendsOf(b)[i].task = i
            /\ LogOf(b)[i].status = IF SendsOf(b)[i].ok THEN "sent" ELSE "failed"

\* a returned batch of three emails with both outcomes in its log
C7_Witness ==
  /\ result[1] = "returned"
  /\ Len(emails[1]) = 3
  /\ LogOf(1)[1].status = "failed"
  /\ LogOf(1)[2].status = "sent"
  /\ LogOf(1)[3].status = "failed"

\* ------------------------------------------------------------------ C8
\* C8: with an empty emails list, for every pool: no sendMail call, no log
\* document, no transport, no server selection and no rejection ever happen;
\* the queue is rebuilt once, and when the call ends it has returned normally
\* with the queue rebuilt from the stored configs and the cursor at 0.
C8_EmptyListOnlyRefreshes ==
  \A b \in {1} :
    Len(emails[b]) = 0 =>
      /\ sends = <<>>
      /\ emailLog = <<>>
      /\ transports = {}
      /\ thrown[b] = <<>>
      /\ scan[b] = <<>>
      /\ refreshes[b] <= 1
      /\ result[b] # "rejected"
      /\ pc[b] = "done" =>
            /\ result[b] = "returned"
            /\ refreshes[b] = 1
            /\ smtpQueue = RefreshQueue(configs)
            /\ currentSmtpIndex = 0

\* an empty list returned over a pool whose two servers are both exhausted
C8_Witness ==
  /\ Len(emails[1]) = 0
  /\ result[1] = "returned"
  /\ Len(smtpQueue) = 2
  /\ QueueExhausted

\* ------------------------------------------------------------------ C9
\* C9: the emptiness test of line 63 that follows the implicit refresh sees
\* the queue rebuilt from the stored configs; a scan only runs over a
\* non-empty queue; NoServersConfigured is thrown only with no config stored;
\* and a batch of at least one email over an empty pool makes no sendMail
\* call, writes no log document and ends rejected with NoServersConfigured,
\* each of its two getNextAvailableSmtp calls having refreshed first.
C9_EmptyPoolRejects ==
  \A b \in {1} :
    /\ pc[b] = "gn_check" =>
          /\ smtpQueue = RefreshQueue(configs)
          /\ refreshes[b] >= 2
    /\ pc[b] \in {"gn_query", "gn_decide", "gn_ret"} => Len(smtpQueue) > 0
    /\ \A t \in 1 .. Len(thrown[b]) :
          thrown[b][t].error = NoServersConfigured =>
            Len(configs) = 0 /\ refreshes[b] >= t + 1
    /\ (Len(configs) = 0 /\ Len(emails[b]) >= 1) =>
          /\ sends = <<>>
          /\ emailLog = <<>>
          /\ result[b] # "returned"
          /\ pc[b] = "done" =>
                /\ result[b] = "rejected"
                /\ error[b] = NoServersConfigured
                /\ refreshes[b] = 3

\* a batch with emails over an empty pool was rejected
C9_Witness ==
  /\ Len(configs) = 0
  /\ Len(emails[1]) >= 1
  /\ result[1] = "rejected"
  /\ error[1] = NoServersConfigured
  /\ refreshes[1] = 3

\* ------------------------------------------------------------------ C10
\* C10: when a stored config is the default and its today-count is below its
\* dailyLimit, the first getNextAvailableSmtp call after the refresh of line
\* 98 does not fail and returns that config after a single count query,
\* whatever its position in the stored order.
C10_DefaultServedFirst ==
  \A b \in {1} : \A i \in 1 .. Len(configs) :
    (/\ configs[i].isDefault
     /\ priorSent[configs[i].id] < configs[i].dailyLimit
     /\ idx[b] = 1
     /\ phase[b] = "try") =>
        /\ thrown[b] = <<>>
        /\ pc[b] \in {"gn_query", "gn_decide"} => config[b] = configs[i]
        /\ pc[b] = "gn_ret" =>
              /\ config[b] = configs[i]
              /\ scan[b] = <<0>>

\* the default is stored second and is returned by the first call
C10_Witness ==
  /\ Len(configs) = 2
  /\ configs[2].isDefault
  /\ idx[1] = 1
  /\ phase[1] = "try"
  /\ pc[1] = "gn_ret"
  /\ config[1] = configs[2]
  /\ getSmtpDailyCount(configs[1].id) < configs[1].dailyLimit

\* ------------------------------------------------------------------ C11
\* C11: queue [A, B] with A the default, both today-counts 0, n <= a + b
\* emails and every send succeeding: the i-th log document is "sent" and is
\* written against A for i <= a and against B for i > a, and the batch, when
\* it ends, has returned normally with n documents.
C11_DefaultUntilExhaustedThenNext ==
  LET n == Len(emails[1]) IN
  (/\ Len(configs) = 2
   /\ Len(smtpQueue) = 2
   /\ smtpQueue[1].isDefault
   /\ \A s \in ServerIds : priorSent[s] = 0
   /\ n <= smtpQueue[1].dailyLimit + smtpQueue[2].dailyLimit
   /\ AllSendsOk) =>
      /\ \A i \in 1 .. Len(emailLog) :
            /\ emailLog[i].status = "sent"
            /\ emailLog[i].subscriberId = emails[1][i]
            /\ emailLog[i].smtpConfigId =
                 IF i <= smtpQueue[1].dailyLimit THEN smtpQueue[1].id
                                                 ELSE smtpQueue[2].id
      /\ result[1] # "rejected"
      /\ pc[1] = "done" => Len(emailLog) = n

\* a = 2, n = 3: the log reads A, A, B
C11_Witness ==
  /\ Len(smtpQueue) = 2
  /\ smtpQueue[1].isDefault
  /\ smtpQueue[1].dailyLimit = 2
  /\ \A s \in ServerIds : priorSent[s] = 0
  /\ result[1] = "returned"
  /\ Len(emailLog) = 3
  /\ emailLog[1].smtpConfigId = smtpQueue[1].id
  /\ emailLog[2].smtpConfigId = smtpQueue[1].id
  /\ emailLog[3].smtpConfigId = smtpQueue[2].id
  /\ AllSendsOk

\* ------------------------------------------------------------------ C12
\* C12: when the sendMail call of email k starts, exactly k - 1 delays of
\* this batch have elapsed, and the j-th of them lasted RATE_LIMIT_DELAY if
\* the send of email j resolved and twice that if it rejected; while a delay
\* runs, the send of the current email is over and no later send has begun.
C12_PacingBetweenSends ==
  \A b \in {1} :
    /\ pc[b] = "sending" =>
          /\ Len(delays[b]) = idx[b] - 1
          /\ Len(SendsOf(b)) = idx[b] - 1
    /\ pc[b] \in {"delay", "delay_err"} =>
          /\ Len(SendsOf(b)) = idx[b]
          /\ Len(delays[b]) = idx[b] - 1
    /\ \A j \in 1 .. Len(delays[b]) :
          /\ j <= Len(SendsOf(b))
          /\ SendsOf(b)[j].task = j
          /\ delays[b][j] = IF SendsOf(b)[j].ok THEN 2000 ELSE 4000

\* the third send starts after a failed and a successful one
C12_Witness ==
  /\ pc[1] = "sending"
  /\ idx[1] = 3
  /\ delays[1] = <<4000, 2000>>

\* ------------------------------------------------------------------ C13
\* C13: every sendBulkEmails call eventually ends, either returned with one
\* log document per email or rejected with a batch-fatal error.
Finished(b) ==
  \/ result[b] = "returned" /\ Len(LogOf(b)) = Len(emails[b])
  \/ result[b] = "rejected" /\ error[b] \in {NoServersConfigured, AllQuotasExhausted}

C13_BatchTerminates == <>Finished(1)

\* a batch of three emails has returned
C13_Witness ==
  /\ Finished(1)
  /\ result[1] = "returned"
  /\ Len(emails[1]) = 3

\* ------------------------------------------------------------------ C14
\* campaign b has a "sent" document against server s
SentBy(b, s) ==
  \E i \in 1 .. Len(emailLog) :
     /\ emailLog[i].campaignId = b
     /\ emailLog[i].smtpConfigId = s
     /\ emailLog[i].status = "sent"

\* server s started the day within its limit and is now over it
OverLimit(s) ==
  /\ s <= Len(configs)
  /\ priorSent[s] <= configs[s].dailyLimit
  /\ getSmtpDailyCount(s) > configs[s].dailyLimit

\* C14: with two concurrent calls every send still follows a read of
\* count < dailyLimit for the server used, yet the "sent" documents of a server
\* can exceed its dailyLimit; this happens only through both calls sending on
\* that server (each passed the quota test before the other logged).
C14_SoftQuotaUnderConcurrency ==
  /\ \A b \in Batches :
        pc[b] \in {"sending", "log_sent"} => count[b] < smtp[b].dailyLimit
  /\ \A s \in ServerIds : OverLimit(s) => \A b \in Batches : SentBy(b, s)

\* both calls have sent on one server and its "sent" count is over the limit
C14_Witness ==
  \E s \in ServerIds : OverLimit(s) /\ SentBy(1, s) /\ SentBy(2, s)

\* ------------------------------------------------------------------ C15
\* C15: for every server id createTransport is called at most once, exactly
\* when the id first enters the transports Map; every later getTransport of
\* that id, from either concurrent call, creates nothing; and an id never
\* leaves the Map.
C15_OneTransportPerServer ==
  /\ [](\A s \in ServerIds : created[s] <= 1 /\ (created[s] = 1 <=> s \in transports))
  /\ [][transports \subseteq transports']_vars

\* both concurrent calls have sent through the single transport of a server
C15_Witness ==
  \E s \in ServerIds :
     /\ created[s] = 1
     /\ \E i, j \in 1 .. Len(sends) :
          sends[i].batch = 1 /\ sends[j].batch = 2
          /\ sends[i].server = s /\ sends[j].server = s

\* ------------------------------------------------------------------ C16
\* the send route has answered a request that passed authentication and
\* named an existing newsletter
RouteAnswered == rpc = "done" /\ http \notin {401, 404}

\* C16: the send route answers 200 after starting sendBulkEmails without
\* awaiting it, the campaign then being in its initial in-progress status;
\* afterwards the campaign is "completed" only if sendBulkEmails returned and
\* "failed", with the error text, only if it rejected.
C16_RouteStartsBatchAndSettlesCampaign ==
  /\ RouteAnswered =>
       /\ http = 200
       /\ campaign.status \in {InitialStatus, "completed", "failed"}
       /\ result[1] # "none"
  /\ campaign.status = "completed" => result[1] = "returned"
  /\ campaign.status = "failed" =>
       result[1] = "rejected" /\ campaign.error = error[1]

\* ------------------------------------------------------------------ C17
\* stored positions of the configurations with isDefault = true
Defaults(cfgs) == {i \in 1 .. Len(cfgs) : cfgs[i].isDefault}

\* C17: at most one stored configuration has isDefault = true, whatever
\* create and update requests have run and however their steps interleaved.
C17_AtMostOneDefault == Cardinality(Defaults(configs)) <= 1

\* ------------------------------------------------------------------ C18
\* q holds every config of cfgs exactly once
HoldsEachOnce(q, cfgs) ==
  /\ Len(q) = Len(cfgs)
  /\ \A i \in 1 .. Len(cfgs) :
        Cardinality({j \in 1 .. Len(q) : q[j] = cfgs[i]}) = 1

\* q is default-first: the default of cfgs, then the rest in stored order
DefaultFirst(q, cfgs) ==
  IF Defaults(cfgs) = {} THEN q = cfgs
  ELSE /\ q # <<>>
       /\ q[1].isDefault
       /\ Tail(q) = SelectSeq(cfgs, LAMBDA c : c # q[1])

\* C18: a refresh leaves the cursor at 0 and a queue that holds every config
\* of the snapshot exactly once, the default first when there is one and the
\* remaining configs in stored order (the stored order itself without a
\* default, the empty queue for an empty snapshot).
C18_RefreshKeepsEveryConfig ==
  [][\A b \in Batches :
       (pc[b] = "rf_build" /\ pc'[b] # "rf_build") =>
          /\ currentSmtpIndex' = 0
          /\ HoldsEachOnce(smtpQueue', snapshot[b])
          /\ DefaultFirst(smtpQueue', snapshot[b])]_vars

\* ------------------------------------------------------------------ C19
\* the server used for the previous email is still under its quota
LastStillUnderQuota(b) ==
  /\ smtp[b] # NoConfig
  /\ getSmtpDailyCount(smtp[b].id) < smtp[b].dailyLimit

\* C19: the cursor changes only when a refresh resets it or when the scan
\* steps past a candidate whose count is at or over its dailyLimit, and then
\* to (cursor + 1) modulo the queue length; when a call returns, the cursor is
\* on the returned server, and a call made while the server of the previous
\* email is still under quota returns that server after a single query.
C19_StickyCursor ==
  /\ [](\A b \in {1} :
          pc[b] = "gn_ret" =>
            /\ smtpQueue[currentSmtpIndex + 1] = config[b]
            /\ LastStillUnderQuota(b) => config[b] = smtp[b] /\ Len(scan[b]) = 1)
  /\ [][currentSmtpIndex' # currentSmtpIndex =>
          \/ pc[1] = "rf_build" /\ currentSmtpIndex' = 0
          \/ /\ pc[1] = "gn_decide"
             /\ count[1] >= config[1].dailyLimit
             /\ currentSmtpIndex' = (currentSmtpIndex + 1) % Len(smtpQueue)]_vars

\* a later email is served by the same server again, the cursor resting on an
\* index it reached by stepping past an exhausted server
C19_Witness ==
  /\ pc[1] = "gn_ret"
  /\ phase[1] = "try"
  /\ idx[1] >= 2
  /\ config[1] = smtp[1]
  /\ currentSmtpIndex >= 1
  /\ Len(scan[1]) = 1

\* ------------------------------------------------------------------ C20
\* sendBulkEmails of batch b is past its refresh of line 98 and not yet settled
InProgress(b) == result[b] = "running" /\ refreshes[b] >= 1

\* C20: while a sendBulkEmails call is in progress the queue is not empty and
\* the cursor is an index into it, also while another call refreshes the
\* queue and while configurations are deleted.
C20_CursorValidWhileInProgress ==
  (\E b \in Batches : InProgress(b)) =>
     /\ Len(smtpQueue) > 0
     /\ currentSmtpIndex \in 0 .. Len(smtpQueue) - 1

\* the cursor has become NaN under a call that is in progress
CursorIsNaN == currentSmtpIndex = NaN /\ \E b \in Batches : InProgress(b)

\* ------------------------------------------------------------------ C21
\* sendBulkEmails of batch b has settled
Settled(b) == result[b] \in {"returned", "rejected"}

\* C21 as stated: every sendBulkEmails invocation runs refreshSmtpQueue exactly
\* once, before the first email, and never inside the loop, whatever the pool.
C21_RefreshExactlyOnce ==
  \A b \in {1} :
     /\ refreshes[b] <= 1
     /\ Settled(b) => refreshes[b] = 1

\* C21 amended: the refresh of line 98 runs once before the first email; over
\* a non-empty pool it is the only one, over an empty pool every call of
\* getNextAvailableSmtp refreshes again (lines 59-61), so a batch with at least
\* one email settles after three refreshes (line 98, line 103, line 126).
C21_RefreshOnceUnlessPoolEmpty ==
  \A b \in {1} :
     /\ (phase[b] # "top" \/ pc[b] \in {"loop", "done"}) => refreshes[b] >= 1
     /\ (Len(configs) > 0 \/ emails[b] = <<>>) =>
           /\ refreshes[b] <= 1
           /\ Settled(b) => refreshes[b] = 1
     /\ (Len(configs) = 0 /\ emails[b] # <<>>) =>
           /\ refreshes[b] <= 3
           /\ Settled(b) => refreshes[b] = 3 /\ result[b] = "rejected" /\ idx[b] = 1

\* a batch of several emails over a non-empty pool has returned after its
\* single refresh
C21_Witness ==
  /\ Len(configs) > 0
  /\ Len(emails[1]) >= 2
  /\ result[1] = "returned"
  /\ refreshes[1] = 1

\* ------------------------------------------------------------------ C22
\* the document at position i of the log is a failure document and record j of
\* sends is the rejected sendMail call of the same email
FailedSendOf(i, j) ==
  /\ emailLog[i].status = "failed"
  /\ sends[j].batch = emailLog[i].campaignId
  /\ sends[j].subscriberId = emailLog[i].subscriberId
  /\ ~sends[j].ok

\* C22: after a rejected sendMail the failure document is written against the
\* server that the getNextAvailableSmtp call of the catch block returned (its
\* count read below its dailyLimit after the failure), with the error text of
\* the rejection; that server can differ from the one the send was attempted on.
C22_FailureLoggedAgainstReselection ==
  [][\A b \in Batches :
       (pc[b] = "gn_ret" /\ phase[b] = "catch" /\ caught[b] \in SendErrors
        /\ pc'[b] # pc[b]) =>
          /\ count[b] < config[b].dailyLimit
          /\ emailLog' = Append(emailLog,
                           LogDoc(config[b].id, b, emails[b][idx[b]], "failed", caught[b]))]_vars

\* a failure document names another server than the failed send used
C22_Witness ==
  \E i \in 1 .. Len(emailLog), j \in 1 .. Len(sends) :
     FailedSendOf(i, j) /\ sends[j].server # emailLog[i].smtpConfigId

\* ------------------------------------------------------------------ C23
\* a configured server other than s is under its quota
OtherUnderQuota(s) == \E i \in UnderQuotaServers : configs[i].id # s

\* C23: after a failed send on a server the dispatcher rotates: when another
\* server is under its quota, the next email of the batch is attempted on a
\* server other than the one that failed, and the cursor has left that server.
C23_RotatesAfterFailure ==
  \A b \in {1} :
     \A k \in 1 .. Len(SendsOf(b)) :
        (~SendsOf(b)[k].ok /\ OtherUnderQuota(SendsOf(b)[k].server)) =>
           /\ k < Len(SendsOf(b)) => SendsOf(b)[k + 1].server # SendsOf(b)[k].server
           /\ (k = Len(SendsOf(b)) /\ pc[b] \in {"delay_err", "loop"}) =>
                 smtpQueue[currentSmtpIndex + 1].id # SendsOf(b)[k].server

\* ------------------------------------------------------------------ C24
\* "sent" documents the dispatcher has written against server s
SentNow(s) ==
  Cardinality({i \in 1 .. Len(emailLog) :
                 emailLog[i].smtpConfigId = s /\ emailLog[i].status = "sent"})

\* C24: with one sendBulkEmails call as the only writer of the log, a server
\* whose today-count started at or below its dailyLimit never has more "sent"
\* documents today than its dailyLimit.
C24_HardQuotaSingleBatch ==
  \A s \in ServerIds : ~OverLimit(s)

\* the batch has filled a server exactly to its dailyLimit and goes on with
\* further emails
C24_Witness ==
  \E s \in 1 .. Len(configs) :
     /\ SentNow(s) >= 1
     /\ getSmtpDailyCount(s) = configs[s].dailyLimit
     /\ pc[1] = "gn_decide"
     /\ config[1].id = s
     /\ count[1] = configs[s].dailyLimit

\* ------------------------------------------------------------------ C25
\* "sent" documents of server s beyond its dailyLimit
Overshoot(s) == getSmtpDailyCount(s) - configs[s].dailyLimit

\* C25: with K sendBulkEmails calls running concurrently as the only writers
\* of the log, a server that started at or below its dailyLimit never has more
\* than dailyLimit + (K - 1) "sent" documents.
C25_OvershootAtMostOtherBatches ==
  \A s \in 1 .. Len(configs) :
     priorSent[s] <= configs[s].dailyLimit =>
        Overshoot(s) <= Cardinality(Batches) - 1

\* the bound is met: a server is K - 1 over its limit while a call still has
\* an email to process
C25_Witness ==
  \E s \in 1 .. Len(configs) :
     /\ priorSent[s] <= configs[s].dailyLimit
     /\ Overshoot(s) = Cardinality(Batches) - 1
     /\ \E b \in Batches : result[b] = "running" /\ idx[b] < Len(emails[b])

\* ------------------------------------------------------------------ C26
\* C26: with two calls interleaving on the shared queue and cursor, a
\* getNextAvailableSmtp call fails with the quota error only when every server
\* of the queue is at or over its dailyLimit.
C26_ExhaustionOnlyWhenAllExhausted ==
  \A b \in Batches : CallFailed(b, AllQuotasExhausted) => QueueExhausted

\* ------------------------------------------------------------------ C27
\* the email of the log document at position i was handed to sendMail and the
\* call was rejected; no sendMail call for it resolved
SendAttemptedAndThrew(i) ==
  /\ \E j \in 1 .. Len(sends) : FailedSendOf(i, j)
  /\ \A j \in 1 .. Len(sends) :
        (sends[j].batch = emailLog[i].campaignId
         /\ sends[j].subscriberId = emailLog[i].subscriberId) => ~sends[j].ok

\* C27: every failure document belongs to an email whose send was attempted
\* and rejected; none is written for an email whose send resolved or for an
\* email that was never handed to sendMail.
C27_FailedEntryHasFailedSend ==
  \A i \in 1 .. Len(emailLog) :
     emailLog[i].status = "failed" => SendAttemptedAndThrew(i)

\* ------------------------------------------------------------------ C28
\* C28: in one sendBulkEmails call every failure document names the server its
\* rejected send was attempted on, and carries that rejection's error text.
C28_FailureLoggedAgainstUsedServer ==
  \A i \in 1 .. Len(emailLog) :
     emailLog[i].status = "failed" =>
        \E j \in 1 .. Len(sends) :
           /\ FailedSendOf(i, j)
           /\ sends[j].server = emailLog[i].smtpConfigId
           /\ sends[j].error = emailLog[i].error

\* a failure has been logged while another server was under its quota
C28_Witness ==
  \E i \in 1 .. Len(emailLog) :
     /\ emailLog[i].status = "failed"
     /\ OtherUnderQuota(emailLog[i].smtpConfigId)

\* ------------------------------------------------------------------ C29
\* 0-based position of server id in the queue
QueueIndex(id) == (CHOOSE i \in 1 .. Len(smtpQueue) : smtpQueue[i].id = id) - 1

\* C29: in one sendBulkEmails call the queue index of the server used never
\* decreases from one send to the next, so a server the cursor has moved past
\* is not used again.
C29_UsedQueueIndexNeverDecreases ==
  \A b \in {1} :
     \A j, k \in 1 .. Len(SendsOf(b)) :
        j < k => QueueIndex(SendsOf(b)[j].server) <= QueueIndex(SendsOf(b)[k].server)

\* the batch has moved on from one server to the next and sent again there
C29_Witness ==
  /\ Len(SendsOf(1)) >= 3
  /\ QueueIndex(SendsOf(1)[1].server) < QueueIndex(SendsOf(1)[2].server)

\* ------------------------------------------------------------------ C30
\* "sent" documents of campaign b
SentEntries(b) ==
  Cardinality({i \in 1 .. Len(emailLog) :
                 emailLog[i].campaignId = b /\ emailLog[i].status = "sent"})

\* C30: the campaign of an answered send request records every email handed
\* to sendBulkEmails as totalEmails, and once the route marks it "completed"
\* its emailsSent equals totalEmails, whatever part of the emails was logged
\* as sent.
C30_CompletedCountsEveryTask ==
  /\ RouteAnswered =>
       campaign # NoCampaign /\ campaign.totalEmails = Len(emails[1])
  /\ campaign.status = "completed" =>
       /\ campaign.emailsSent = campaign.totalEmails
       /\ campaign.emailsSent >= SentEntries(1)

====
